---------------------------- MODULE Spec2Model ----------------------------
(***************************************************************************)
(* Model of hookify's configuration loader (core/config_loader.py):        *)
(* the frontmatter parser, Rule construction, the per-directory load and   *)
(* the two-tier merge.                                                     *)
(*                                                                         *)
(* Text is modelled character by character: a Python str is a sequence of  *)
(* one-character strings, so that strip, split, startswith, lower and the  *)
(* quote stripping are computed and not assumed.                           *)
(***************************************************************************)
EXTENDS Integers, Sequences, FiniteSets, TLC

VARIABLES
    dirs,       \* tier -> [exists, files]: the two .claude directories, file names in glob order
    call,       \* the call in progress or just returned: its arguments, locals and result
    stderr,     \* the diagnostics the last call printed to sys.stderr, in order
    content,    \* SpecParse: the text handed to extract_frontmatter / load_rule_file
    parsed      \* SpecParse: what the last parse step returned for content

vars == <<dirs, call, stderr, content, parsed>>

(***************************************************************************)
(* Python values.  A header value is a str, a bool or a list; list items   *)
(* are strs or dicts (str -> str); None is the absent value.               *)
(***************************************************************************)
PyNone == [t |-> "none"]
PyStr(s) == [t |-> "str", s |-> s]
PyBool(b) == [t |-> "bool", b |-> b]
PyList(l) == [t |-> "list", l |-> l]
PyDict(d) == [t |-> "dict", d |-> d]

\* Python truthiness (bool(v)) of a value.
Truthy(v) ==
    CASE v.t = "none" -> FALSE
      [] v.t = "str"  -> Len(v.s) > 0
      [] v.t = "bool" -> v.b
      [] v.t = "list" -> Len(v.l) > 0
      [] v.t = "dict" -> DOMAIN v.d # {}

EmptyDict == <<>>

\* d[k] = v on a dict (a function from keys to values).
DictSet(d, k, v) == [x \in (DOMAIN d) \cup {k} |-> IF x = k THEN v ELSE d[x]]

\* d.get(k, default)
DictGet(d, k, default) == IF k \in DOMAIN d THEN d[k] ELSE default

(***************************************************************************)
(* str methods                                                             *)
(***************************************************************************)
\* index of the first character of s at or after i that is not in the set cs
\* (Len(s) + 1 if there is none)
LSkip(s, i, cs) ==
    LET keep == {j \in i..Len(s) : s[j] \notin cs}
    IN IF keep = {} THEN Len(s) + 1 ELSE CHOOSE j \in keep : \A k \in keep : j <= k

\* index of the last character of s at or before i that is not in the set cs
\* (0 if there is none)
RSkip(s, i, cs) ==
    LET keep == {j \in 1..i : s[j] \notin cs}
    IN IF keep = {} THEN 0 ELSE CHOOSE j \in keep : \A k \in keep : j >= k

\* s.strip(chars), s.lstrip(chars) for a set of characters
strip_chars(s, cs) == SubSeq(s, LSkip(s, 1, cs), RSkip(s, Len(s), cs))
lstrip_chars(s, cs) == SubSeq(s, LSkip(s, 1, cs), Len(s))

Whitespace == {" ", "\n", "\t"}
strip(s) == strip_chars(s, Whitespace)
lstrip(s) == lstrip_chars(s, Whitespace)

\* v.strip('"').strip("'")
strip_quotes(s) == strip_chars(strip_chars(s, {"\""}), {"'"})

startswith(s, p) == Len(s) >= Len(p) /\ SubSeq(s, 1, Len(p)) = p

\* index of the first occurrence of sep in s starting at or after i, 0 if none
find(s, sep, i) ==
    LET hits == {j \in i..(Len(s) - Len(sep) + 1) : SubSeq(s, j, j + Len(sep) - 1) = sep}
    IN IF hits = {} THEN 0 ELSE CHOOSE j \in hits : \A k \in hits : j <= k

\* c in s, for a one-character c
contains(s, c) == \E i \in 1..Len(s) : s[i] = c

RECURSIVE split(_, _, _)
\* s.split(sep, maxsplit); maxsplit = -1 is "no limit"
split(s, sep, maxsplit) ==
    LET j == find(s, sep, 1) IN
    IF maxsplit = 0 \/ j = 0 THEN <<s>>
    ELSE <<SubSeq(s, 1, j - 1)>>
            \o split(SubSeq(s, j + Len(sep), Len(s)), sep, maxsplit - 1)

LowerOf ==
    ("T" :> "t") @@ ("R" :> "r") @@ ("U" :> "u") @@ ("E" :> "e") @@
    ("F" :> "f") @@ ("A" :> "a") @@ ("L" :> "l") @@ ("S" :> "s")

\* s.lower()
lower(s) == [i \in 1..Len(s) |-> IF s[i] \in DOMAIN LowerOf THEN LowerOf[s[i]] ELSE s[i]]

(***************************************************************************)
(* String literals of the source                                           *)
(***************************************************************************)
Marker == <<"-", "-", "-">>
s_true == <<"t", "r", "u", "e">>
s_false == <<"f", "a", "l", "s", "e">>
s_name == <<"n", "a", "m", "e">>
s_enabled == <<"e", "n", "a", "b", "l", "e", "d">>
s_event == <<"e", "v", "e", "n", "t">>
s_pattern == <<"p", "a", "t", "t", "e", "r", "n">>
s_conditions == <<"c", "o", "n", "d", "i", "t", "i", "o", "n", "s">>
s_action == <<"a", "c", "t", "i", "o", "n">>
s_tool_matcher == <<"t", "o", "o", "l", "_", "m", "a", "t", "c", "h", "e", "r">>
s_field == <<"f", "i", "e", "l", "d">>
s_operator == <<"o", "p", "e", "r", "a", "t", "o", "r">>
s_regex_match == <<"r", "e", "g", "e", "x", "_", "m", "a", "t", "c", "h">>
s_unnamed == <<"u", "n", "n", "a", "m", "e", "d">>
s_all == <<"a", "l", "l">>
s_warn == <<"w", "a", "r", "n">>
s_bash == <<"b", "a", "s", "h">>
s_file == <<"f", "i", "l", "e">>
s_command == <<"c", "o", "m", "m", "a", "n", "d">>
s_new_text == <<"n", "e", "w", "_", "t", "e", "x", "t">>
s_content == <<"c", "o", "n", "t", "e", "n", "t">>

SOURCE_USER == "user"
SOURCE_PROJECT == "project"

(***************************************************************************)
(* extract_frontmatter                                                     *)
(***************************************************************************)
\* The parser's locals before the first line.
ParserStart ==
    [frontmatter |-> EmptyDict, current_key |-> PyNone, current_list |-> <<>>,
     current_dict |-> EmptyDict, in_list |-> FALSE, in_dict_item |-> FALSE]

\* "Save previous list/dict if any" of the top-level-key branch.
FlushForKey(st) ==
    IF st.in_list /\ Truthy(st.current_key)
    THEN LET pending == st.in_dict_item /\ st.current_dict # EmptyDict
             lst == IF pending THEN Append(st.current_list, PyDict(st.current_dict))
                    ELSE st.current_list
         IN [st EXCEPT !.frontmatter = DictSet(@, st.current_key.s, PyList(lst)),
                       !.current_dict = IF pending THEN EmptyDict ELSE @,
                       !.in_list = FALSE,
                       !.in_dict_item = FALSE,
                       !.current_list = <<>>]
    ELSE st

\* Coercion of a top-level scalar: quotes stripped, true/false to bool.
Scalar(value) ==
    LET v == strip_quotes(value) IN
    IF lower(v) = s_true THEN PyBool(TRUE)
    ELSE IF lower(v) = s_false THEN PyBool(FALSE)
    ELSE PyStr(v)

\* Branch 1: a top-level key line.
TopLevelKey(st, line) ==
    LET st1 == FlushForKey(st)
        kv == split(line, <<":">>, 1)
        key == strip(kv[1])
        value == strip(kv[2])
    IN IF value = <<>>
       THEN [st1 EXCEPT !.current_key = PyStr(key), !.in_list = TRUE, !.current_list = <<>>]
       ELSE [st1 EXCEPT !.frontmatter = DictSet(@, key, Scalar(value))]

RECURSIVE InlineDict(_, _)
\* The dict of the comma separated parts that hold a colon.
InlineDict(parts, d) ==
    IF parts = <<>> THEN d
    ELSE LET part == Head(parts)
             kv == split(part, <<":">>, 1)
         IN InlineDict(Tail(parts),
                IF contains(part, ":")
                THEN DictSet(d, strip(kv[1]), strip_quotes(strip(kv[2])))
                ELSE d)

\* Mutant of ListItem: only an item with exactly one colon opens a
\* multi-line dict item; with more colons and no comma it is a scalar.
ListItem_ExactlyOneColon(st, stripped) ==
    LET pending == st.in_dict_item /\ st.current_dict # EmptyDict
        st1 == IF pending
               THEN [st EXCEPT !.current_list = Append(@, PyDict(st.current_dict)),
                               !.current_dict = EmptyDict]
               ELSE st
        item_text == strip(SubSeq(stripped, 2, Len(stripped)))
        kv == split(item_text, <<":">>, 1)
    IN IF contains(item_text, ":") /\ contains(item_text, ",")
       THEN [st1 EXCEPT !.current_list =
                            Append(@, PyDict(InlineDict(split(item_text, <<",">>, -1), EmptyDict))),
                        !.in_dict_item = FALSE]
       ELSE IF Len(split(item_text, <<":">>, -1)) = 2
       THEN [st1 EXCEPT !.in_dict_item = TRUE,
                        !.current_dict = DictSet(EmptyDict, strip(kv[1]), strip_quotes(strip(kv[2])))]
       ELSE [st1 EXCEPT !.current_list = Append(@, PyStr(strip_quotes(item_text))),
                        !.in_dict_item = FALSE]

\* Branch 2: a list item line while a list is open.
ListItem(st, stripped) ==
    LET pending == st.in_dict_item /\ st.current_dict # EmptyDict
        st1 == IF pending
               THEN [st EXCEPT !.current_list = Append(@, PyDict(st.current_dict)),
                               !.current_dict = EmptyDict]
               ELSE st
        item_text == strip(SubSeq(stripped, 2, Len(stripped)))
        kv == split(item_text, <<":">>, 1)
    IN IF contains(item_text, ":") /\ contains(item_text, ",")
       THEN [st1 EXCEPT !.current_list =
                            Append(@, PyDict(InlineDict(split(item_text, <<",">>, -1), EmptyDict))),
                        !.in_dict_item = FALSE]
       ELSE IF contains(item_text, ":")
       THEN [st1 EXCEPT !.in_dict_item = TRUE,
                        !.current_dict = DictSet(EmptyDict, strip(kv[1]), strip_quotes(strip(kv[2])))]
       ELSE [st1 EXCEPT !.current_list = Append(@, PyStr(strip_quotes(item_text))),
                        !.in_dict_item = FALSE]

\* Branch 3: a continuation line of the open multi-line dict item.
Continuation(st, stripped) ==
    LET kv == split(stripped, <<":">>, 1)
    IN [st EXCEPT !.current_dict = DictSet(@, strip(kv[1]), strip_quotes(strip(kv[2])))]

\* Mutant of ParseLine: a line of any indentation continues the open dict item.
ParseLine_AnyIndent(st, line) ==
    LET stripped == strip(line)
        indent == Len(line) - Len(lstrip(line))
    IN IF stripped = <<>> \/ startswith(stripped, <<"#">>) THEN st
       ELSE IF indent = 0 /\ contains(line, ":") /\ ~startswith(strip(line), <<"-">>)
       THEN TopLevelKey(st, line)
       ELSE IF startswith(stripped, <<"-">>) /\ st.in_list
       THEN ListItem(st, stripped)
       ELSE IF indent > 0 /\ st.in_dict_item /\ contains(line, ":")
       THEN Continuation(st, stripped)
       ELSE st

\* One iteration of the loop over the header's lines.
ParseLine(st, line) ==
    LET stripped == strip(line)
        indent == Len(line) - Len(lstrip(line))
    IN IF stripped = <<>> \/ startswith(stripped, <<"#">>) THEN st
       ELSE IF indent = 0 /\ contains(line, ":") /\ ~startswith(strip(line), <<"-">>)
       THEN TopLevelKey(st, line)
       ELSE IF startswith(stripped, <<"-">>) /\ st.in_list
       THEN ListItem(st, stripped)
       ELSE IF indent > 2 /\ st.in_dict_item /\ contains(line, ":")
       THEN Continuation(st, stripped)
       ELSE st

RECURSIVE ParseLines(_, _, _)
ParseLines(st, lines, i) ==
    IF i > Len(lines) THEN st ELSE ParseLines(ParseLine(st, lines[i]), lines, i + 1)

\* "Save final list/dict if any" after the loop.
FlushFinal(st) ==
    IF st.in_list /\ Truthy(st.current_key)
    THEN LET lst == IF st.in_dict_item /\ st.current_dict # EmptyDict
                    THEN Append(st.current_list, PyDict(st.current_dict))
                    ELSE st.current_list
         IN DictSet(st.frontmatter, st.current_key.s, PyList(lst))
    ELSE st.frontmatter

\* Mutant of NoHeader: the fallback trims the text it returns as body.
NoHeader_Trimmed(text) == [frontmatter |-> EmptyDict, message |-> strip(text)]

\* "return {}, content": the no-header fallback
NoHeader(text) == [frontmatter |-> EmptyDict, message |-> text]

\* extract_frontmatter(content) -> (frontmatter, message)
extract_frontmatter(text) ==
    LET parts == split(text, Marker, 2) IN
    IF ~startswith(text, Marker) THEN NoHeader(text)
    ELSE IF Len(parts) < 3 THEN NoHeader(text)
    ELSE [frontmatter |-> FlushFinal(ParseLines(ParserStart, split(parts[2], <<"\n">>, -1), 1)),
          message |-> strip(parts[3])]

(***************************************************************************)
(* Condition and Rule                                                      *)
(***************************************************************************)
\* Condition.from_dict(data), data a dict
Condition_from_dict(data) ==
    [field    |-> PyStr(DictGet(data, s_field, <<>>)),
     operator |-> PyStr(DictGet(data, s_operator, s_regex_match)),
     pattern  |-> PyStr(DictGet(data, s_pattern, <<>>))]

\* "Infer field from event" of the legacy branch
InferField(event) ==
    IF event = PyStr(s_bash) THEN s_command
    ELSE IF event = PyStr(s_file) THEN s_new_text
    ELSE s_content

\* Mutant of UseLegacy: a pattern is converted whether or not conditions were given.
UseLegacy_PatternFirst(simple_pattern, conditions) == Truthy(simple_pattern)

\* Whether the legacy branch runs: "if simple_pattern and not conditions"
UseLegacy(simple_pattern, conditions) == Truthy(simple_pattern) /\ conditions = <<>>

\* Rule.from_dict(frontmatter, message, source, source_path).  exc names the
\* exception that leaves the call ("" when it returns): c.get on a list
\* item that is a str raises AttributeError.
Rule_from_dict(frontmatter, message, source, source_path) ==
    LET is_list == s_conditions \in DOMAIN frontmatter /\ frontmatter[s_conditions].t = "list"
        cond_list == IF is_list THEN frontmatter[s_conditions].l ELSE <<>>
        raises == \E i \in 1..Len(cond_list) : cond_list[i].t # "dict"
        explicit == [i \in 1..Len(cond_list) |-> Condition_from_dict(cond_list[i].d)]
        simple_pattern == DictGet(frontmatter, s_pattern, PyNone)
        event == DictGet(frontmatter, s_event, PyStr(s_all))
        conditions ==
            IF UseLegacy(simple_pattern, explicit)
            THEN <<[field |-> PyStr(InferField(event)),
                    operator |-> PyStr(s_regex_match),
                    pattern |-> simple_pattern]>>
            ELSE explicit
    IN IF raises THEN [exc |-> "AttributeError", rule |-> PyNone]
       ELSE [exc |-> "",
             rule |-> [t |-> "rule",
                       name |-> DictGet(frontmatter, s_name, PyStr(s_unnamed)),
                       enabled |-> DictGet(frontmatter, s_enabled, PyBool(TRUE)),
                       event |-> event,
                       pattern |-> simple_pattern,
                       conditions |-> conditions,
                       action |-> DictGet(frontmatter, s_action, PyStr(s_warn)),
                       tool_matcher |-> DictGet(frontmatter, s_tool_matcher, PyNone),
                       message |-> strip(message),
                       source |-> source,
                       source_path |-> source_path]]

(***************************************************************************)
(* Rule documents: the hookify.*.local.md files the directories may hold.  *)
(***************************************************************************)
NL == <<"\n">>

\* "key: value"
KV(k, v) == k \o <<":", " ">> \o v

RECURSIVE JoinLines(_)
\* every line followed by a newline
JoinLines(lines) ==
    IF lines = <<>> THEN <<>> ELSE Head(lines) \o NL \o JoinLines(Tail(lines))

\* A document: the header lines between two markers, then the body.
Doc(lines, body) == Marker \o NL \o JoinLines(lines) \o Marker \o NL \o body

s_block == <<"b", "l", "o", "c", "k">>
s_rm == <<"r", "m">>
s_yes == <<"y", "e", "s">>
s_contains == <<"c", "o", "n", "t", "a", "i", "n", "s">>
s_file_path == <<"f", "i", "l", "e", "_", "p", "a", "t", "h">>
s_Bash == <<"B", "a", "s", "h">>

\* "  - field: file_path, operator: contains, pattern: rm"
InlineItem ==
    <<" ", " ", "-", " ">> \o KV(s_field, s_file_path) \o <<",", " ">>
        \o KV(s_operator, s_contains) \o <<",", " ">> \o KV(s_pattern, s_rm)

\* "  - plain": a list entry that is no map
ScalarItem == <<" ", " ", "-", " ", "p", "l", "a", "i", "n">>

\* The files that may appear in a rules directory, by file name.
Catalog ==
    [a_on  |-> [kind |-> "text",
                text |-> Doc(<<KV(s_name, <<"a">>), KV(s_enabled, s_true),
                               KV(s_event, s_bash), KV(s_pattern, s_rm)>>, <<"m">>)],
     a_off |-> [kind |-> "text",
                text |-> Doc(<<KV(s_name, <<"a">>), KV(s_enabled, s_false),
                               KV(s_event, s_bash), KV(s_pattern, s_rm)>>, <<"m">>)],
     a_alt |-> [kind |-> "text",
                text |-> Doc(<<KV(s_name, <<"a">>), KV(s_enabled, s_yes),
                               KV(s_action, s_block), KV(s_tool_matcher, s_Bash),
                               s_conditions \o <<":">>, InlineItem>>, <<"n">>)],
     b_file |-> [kind |-> "text",
                 text |-> Doc(<<KV(s_name, <<"b">>), KV(s_event, s_file),
                                KV(s_pattern, s_rm)>>, <<"m">>)],
     c_all |-> [kind |-> "text",
                text |-> Doc(<<KV(s_name, <<"c">>), KV(s_pattern, s_rm)>>, <<"m">>)],
     bad_cond |-> [kind |-> "text",
                   text |-> Doc(<<KV(s_name, <<"d">>), s_conditions \o <<":">>,
                                  ScalarItem>>, <<"m">>)],
     unnamed_all |-> [kind |-> "text",
                      text |-> Doc(<<KV(s_pattern, s_rm)>>, <<"m">>)],
     unnamed_file |-> [kind |-> "text",
                       text |-> Doc(<<KV(s_event, s_file), KV(s_action, s_block),
                                      KV(s_pattern, s_rm)>>, <<"n">>)],
     list_name |-> [kind |-> "text",
                    text |-> Doc(<<KV(s_event, s_bash), s_name \o <<":">>>>, <<"m">>)],
     locked |-> [kind |-> "unreadable", text |-> <<>>],
     binary |-> [kind |-> "undecodable", text |-> <<>>]]

FileNames == DOMAIN Catalog

Tiers == {SOURCE_USER, SOURCE_PROJECT}

\* A path is <<tier, file name>>: the directory of the tier, then the name.
Paths == Tiers \X FileNames

\* The file a path names.
FileAt(path) ==
    [path |-> path, kind |-> Catalog[path[2]].kind, text |-> Catalog[path[2]].text]

(***************************************************************************)
(* Files.  A file is [path, kind, text]: kind "text" reads as text, kind   *)
(* "unreadable" makes open() raise an OSError, kind "undecodable" makes    *)
(* read() raise UnicodeDecodeError.                                        *)
(***************************************************************************)
\* The exception classes the except clauses name.
OSErrors == {"OSError"}
ValueErrors == {"ValueError", "KeyError", "AttributeError", "TypeError", "UnicodeDecodeError"}

\* "rule = Rule.from_dict(...); return rule": what Rule.from_dict made
\* leaves the try block, with nothing printed.
ReturnRule(made) == [exc |-> made.exc, rule |-> made.rule, diag |-> <<>>]

\* Mutant of FromParsed: the "if not frontmatter" rejection is missing.
FromParsed_NoHeaderCheck(parsed_text, file_path, source) ==
    ReturnRule(Rule_from_dict(parsed_text.frontmatter, parsed_text.message, source, file_path))

\* The try block of load_rule_file after extract_frontmatter: the
\* "if not frontmatter" rejection, then Rule.from_dict.
FromParsed(parsed_text, file_path, source) ==
    IF parsed_text.frontmatter = EmptyDict
    THEN [exc |-> "", rule |-> PyNone,
          diag |-> <<[path |-> file_path, what |-> "missing_frontmatter"]>>]
    ELSE ReturnRule(Rule_from_dict(parsed_text.frontmatter, parsed_text.message,
                                   source, file_path))

\* The try block of load_rule_file: open, read, extract_frontmatter, the
\* "if not frontmatter" rejection and Rule.from_dict.  exc is the exception
\* that leaves the block, "" if none.
load_rule_file_try(file, source) ==
    CASE file.kind = "unreadable" -> [exc |-> "OSError", rule |-> PyNone, diag |-> <<>>]
      [] file.kind = "undecodable" -> [exc |-> "UnicodeDecodeError", rule |-> PyNone, diag |-> <<>>]
      [] OTHER -> FromParsed(extract_frontmatter(file.text), file.path, source)

\* The except clauses of load_rule_file over what left the try block: each
\* prints a diagnostic and returns None; the last one takes every Exception,
\* so no exception leaves the function.
load_rule_file_except(got, file_path) ==
    LET failed(what) == [exc |-> "", rule |-> PyNone,
                         diag |-> <<[path |-> file_path, what |-> what]>>]
    IN IF got.exc = "" THEN got
       ELSE IF got.exc \in OSErrors THEN failed("cannot_read")
       ELSE IF got.exc \in ValueErrors THEN failed("malformed")
       ELSE failed("unexpected")

\* load_rule_file(file_path, source): the try block under its except clauses.
load_rule_file(file, source) ==
    load_rule_file_except(load_rule_file_try(file, source), file.path)

\* load_rule_file of every file of the catalogue, under either source label.
\* The text of a catalogue file never changes, so each is loaded once here
\* and the directory load looks its result up.
LoadedFiles ==
    [ps \in Paths \X Tiers |-> load_rule_file(FileAt(ps[1]), ps[2])] @@ <<>>

\* Mutant of EventFiltered: the wildcard event "all" is not honoured.
EventFiltered_NoWildcard(rule, event) ==
    Truthy(event) /\ rule.event # event

\* The event filter of the directory load: "if event: if rule.event != 'all'
\* and rule.event != event: continue"
EventFiltered(rule, event) ==
    Truthy(event) /\ rule.event # PyStr(s_all) /\ rule.event # event

\* Mutant of Included: disabled rules are kept.
Included_Always(rule) == TRUE

\* "Only include enabled rules"
Included(rule) == Truthy(rule.enabled)

\* Mutant of LoadOne: a file that yields no rule is re-raised out of the loop.
LoadOne_Reraise(acc, got, file_path, event) ==
    LET diags == acc.diags \o got.diag
    IN IF got.exc # "" \/ got.rule = PyNone
       THEN [acc EXCEPT !.exc = "Exception", !.diags = diags]
       ELSE IF EventFiltered(got.rule, event) THEN [acc EXCEPT !.diags = diags]
       ELSE IF Included(got.rule)
       THEN [acc EXCEPT !.rules = Append(@, got.rule), !.diags = diags]
       ELSE [acc EXCEPT !.diags = diags]

\* One iteration of the loop of _load_rules_from_dir over
\* acc = [exc, rules, diags], got being what load_rule_file(file_path,
\* source) gave: the rest of the try block and the except clauses, each of
\* which prints a warning and continues.
LoadOne(acc, got, file_path, event) ==
    LET diags == acc.diags \o got.diag
        warned(what) == [acc EXCEPT !.diags = Append(diags, [path |-> file_path, what |-> what])]
    IN IF got.exc \in OSErrors THEN warned("failed_to_read")
       ELSE IF got.exc \in ValueErrors THEN warned("failed_to_parse")
       ELSE IF got.exc # "" THEN warned("unexpected_loading")
       ELSE IF got.rule = PyNone THEN [acc EXCEPT !.diags = diags]
       ELSE IF EventFiltered(got.rule, event) THEN [acc EXCEPT !.diags = diags]
       ELSE IF Included(got.rule)
       THEN [acc EXCEPT !.rules = Append(@, got.rule), !.diags = diags]
       ELSE [acc EXCEPT !.diags = diags]

RECURSIVE LoadLoop(_, _, _, _, _)
\* "for file_path in files"; an exception that leaves an iteration ends the loop
LoadLoop(acc, files, i, source, event) ==
    IF i > Len(files) \/ acc.exc # "" THEN acc
    ELSE LoadLoop(LoadOne(acc, LoadedFiles[<<files[i], source>>], files[i], event),
                  files, i + 1, source, event)

\* _load_rules_from_dir(rules_dir, source, event) -> [exc, rules, diags]
load_rules_from_dir(files, source, event) ==
    LoadLoop([exc |-> "", rules |-> <<>>, diags |-> <<>>], files, 1, source, event)

\* get_user_rules_dir() / get_project_rules_dir(): the directory if it exists
get_rules_dir(d, source) ==
    IF d[source].exists THEN [t |-> "path", source |-> source] ELSE PyNone

\* glob.glob(rules_dir / 'hookify.*.local.md'): the paths of the directory's files
glob(d, rules_dir) ==
    [i \in 1..Len(d[rules_dir.source].files) |-> <<rules_dir.source, d[rules_dir.source].files[i]>>]

\* Mutant of PutByName: every rule is added, whatever its name.
PutByName_Append(by_name, rule) == Append(by_name, rule)

\* Mutant of PutByName: the first rule under a name is kept (no overwrite).
PutByName_KeepFirst(by_name, rule) ==
    IF \E i \in 1..Len(by_name) : by_name[i].name = rule.name
    THEN by_name
    ELSE Append(by_name, rule)

\* rules_by_name[rule.name] = rule on the insertion-ordered mapping
PutByName(by_name, rule) ==
    IF \E i \in 1..Len(by_name) : by_name[i].name = rule.name
    THEN [i \in 1..Len(by_name) |-> IF by_name[i].name = rule.name THEN rule ELSE by_name[i]]
    ELSE Append(by_name, rule)

RECURSIVE PutAll(_, _, _)
\* "for rule in rules: rules_by_name[rule.name] = rule"; a list is unhashable,
\* so a rule whose name is a list raises TypeError and ends the loop.
PutAll(m, rules, i) ==
    IF i > Len(rules) \/ m.exc # "" THEN m
    ELSE PutAll(IF rules[i].name.t = "list"
                THEN [m EXCEPT !.exc = "TypeError"]
                ELSE [m EXCEPT !.by_name = PutByName(@, rules[i])],
                rules, i + 1)

\* A directory load that did not run.
NotRun == [ran |-> FALSE, exc |-> "", rules |-> <<>>, diags |-> <<>>]

\* A directory load that ran, with what _load_rules_from_dir gave.
Ran(got) == [ran |-> TRUE, exc |-> got.exc, rules |-> got.rules, diags |-> got.diags]

\* "xxx_dir = get_xxx_rules_dir(); if xxx_dir: _load_rules_from_dir(...)"
TierLoad(d, source, event) ==
    LET rules_dir == get_rules_dir(d, source)
    IN IF rules_dir = PyNone THEN NotRun
       ELSE Ran(load_rules_from_dir(glob(d, rules_dir), source, event))

\* A call before its first tier: no exception, rules_by_name = {}, and no
\* directory loaded.  loads holds the directory loads in the order made.
Started == [exc |-> "", by_name |-> <<>>, loads |-> <<>>]

\* "for rule in xxx_rules: rules_by_name[rule.name] = rule" after the
\* directory load of a tier.
Overlaid(st, tier) ==
    LET m == PutAll([by_name |-> st.by_name, exc |-> tier.exc], tier.rules, 1)
    IN [exc |-> m.exc, by_name |-> m.by_name, loads |-> Append(st.loads, tier)]

\* The block of one tier in load_rules: its directory load, then the
\* overlay of its rules.  After an exception nothing more runs.
load_rules_tier(st, d, source, event) ==
    IF st.exc # "" THEN [st EXCEPT !.loads = Append(@, NotRun)]
    ELSE Overlaid(st, TierLoad(d, source, event))

\* "result[SOURCE_XXX] = _load_rules_from_dir(...)" after the directory load
\* of a tier.
Listed(st, tier) == [st EXCEPT !.exc = tier.exc, !.loads = Append(@, tier)]

\* The block of one tier in list_all_rules.
list_all_rules_tier(st, d, source) ==
    IF st.exc # "" THEN [st EXCEPT !.loads = Append(@, NotRun)]
    ELSE Listed(st, TierLoad(d, source, PyNone))

\* What a call leaves behind: the exception it raised ("" if it returned),
\* the outcome of each tier's directory load, the rules returned, and what
\* was printed to stderr.
Outcome(op, event, st) ==
    [op |-> op, event |-> event, exc |-> st.exc,
     user |-> [ran |-> st.loads[1].ran, exc |-> st.loads[1].exc, rules |-> st.loads[1].rules],
     project |-> [ran |-> st.loads[2].ran, exc |-> st.loads[2].exc,
                  rules |-> st.loads[2].rules],
     rules |-> IF st.exc = "" THEN st.by_name ELSE <<>>,
     diags |-> st.loads[1].diags \o st.loads[2].diags]

\* Mutant of load_rules: the tiers are overlaid unfiltered by event, and the
\* event filter is applied to the merged mapping.
load_rules_FilterLast(d, event) ==
    [Outcome("load_rules", PyNone,
             load_rules_tier(load_rules_tier(Started, d, SOURCE_USER, PyNone),
                             d, SOURCE_PROJECT, PyNone))
        EXCEPT !.event = event,
               !.rules = SelectSeq(@, LAMBDA x : ~EventFiltered(x, event))]

\* load_rules(event): the user tier first, then the project tier over it;
\* the values of rules_by_name are returned.
load_rules(d, event) ==
    Outcome("load_rules", event,
            load_rules_tier(load_rules_tier(Started, d, SOURCE_USER, event),
                            d, SOURCE_PROJECT, event))

\* list_all_rules(): {user: [...], project: [...]}
list_all_rules(d) ==
    Outcome("list_all_rules", PyNone,
            list_all_rules_tier(list_all_rules_tier(Started, d, SOURCE_USER),
                                d, SOURCE_PROJECT))

\* The events a caller asks for: none, or a hook's event name.
RequestedEvents == {PyNone, PyStr(s_bash), PyStr(s_file)}

\* Bound: the number of rule files in the two directories together.
MaxFiles == 3

(***************************************************************************)
(* Inputs of the parser specification                                      *)
(***************************************************************************)
\* Bound: the number of pieces a parser input text is made of.
MaxPieces == 4

\* Bound: the number of items of a conditions list in a generated rule document.
MaxItems == 2

Pieces == {Marker, NL, <<" ">>, <<"-">>, <<"x">>, KV(<<"k">>, <<"v">>)}

RECURSIVE Concat(_)
Concat(ss) == IF ss = <<>> THEN <<>> ELSE Head(ss) \o Concat(Tail(ss))

\* Every text made of at most MaxPieces pieces.
PieceTexts ==
    UNION {{Concat(ps) : ps \in [1..n -> Pieces]} : n \in 0..MaxPieces}

EventLines ==
    {<<>>, <<KV(s_event, s_bash)>>, <<KV(s_event, s_file)>>,
     <<KV(s_event, <<"s", "t", "o", "p">>)>>, <<KV(s_event, s_all)>>}

PatternLines ==
    {<<>>, <<KV(s_pattern, s_rm)>>, <<KV(s_pattern, <<"\"", "r", "m", " ", "-", "r", "f", "\"">>)>>,
     <<KV(s_pattern, <<"\"", "\"">>)>>, <<KV(s_pattern, s_false)>>}

\* "  - field: command" / "    pattern: rm": a map item over two lines
MultiItem ==
    <<<<" ", " ", "-", " ">> \o KV(s_field, s_command),
      <<" ", " ", " ", " ">> \o KV(s_pattern, s_rm)>>

\* The items a conditions list is made of, each as its lines.
ItemKinds ==
    {<<InlineItem>>, MultiItem, <<ScalarItem>>,
     <<<<"-", " ">> \o KV(s_pattern, <<"'", "q", "'">>) \o <<",", " ">> \o KV(s_field, <<"f">>)>>}

ConditionLines ==
    {<<>>, <<KV(s_conditions, <<"x">>)>>}
        \cup UNION {{<<s_conditions \o <<":">>>> \o Concat(items) : items \in [1..n -> ItemKinds]}
                        : n \in 0..MaxItems}

\* Rule documents: every combination of event, pattern and conditions lines.
RuleDocs ==
    {Doc(<<KV(s_name, <<"a">>)>> \o e \o p \o c, <<" ", "m", " ">>) :
        e \in EventLines, p \in PatternLines, c \in ConditionLines}

\* The values an "enabled:" line may hold: the tokens true and false in any
\* case and quoting, other words, empty quotes, and nothing at all.
EnabledValues ==
    {<<"t", "r", "u", "e">>,
     <<"T", "r", "u", "e">>,
     <<"\"", "T", "R", "U", "E", "\"">>,
     <<"'", "t", "r", "u", "e", "'">>,
     <<"f", "a", "l", "s", "e">>,
     <<"F", "A", "L", "S", "E">>,
     <<"\"", "F", "a", "l", "s", "e", "\"">>,
     <<"'", "f", "a", "l", "s", "e", "'">>,
     <<"n", "o">>,
     <<"o", "f", "f">>,
     <<"0">>,
     <<"y", "e", "s">>,
     <<"f", "a", "l", "s">>,
     <<"\"", "\"">>,
     <<"'", "'">>,
     <<>>}

\* The rule document whose header holds "enabled: " and that value.
EnabledDoc(v) == Doc(<<KV(s_name, <<"a">>), KV(s_enabled, v)>>, <<"m">>)

EnabledDocs == {EnabledDoc(v) : v \in EnabledValues}

ParseInputs == PieceTexts \cup RuleDocs \cup EnabledDocs

(***************************************************************************)
(* Behaviour: the directories change, and the loader is called.            *)
(***************************************************************************)
Idle == [op |-> "idle"]
Unparsed == [op |-> "none"]

NoDir == [exists |-> FALSE, files |-> <<>>]

Init ==
    /\ dirs = [tier \in Tiers |-> NoDir]
    /\ call = Idle
    /\ stderr = <<>>
    /\ content = <<>>
    /\ parsed = Unparsed

FileCount == Len(dirs[SOURCE_USER].files) + Len(dirs[SOURCE_PROJECT].files)

\* s with x put at position pos
InsertAt(s, pos, x) == SubSeq(s, 1, pos - 1) \o <<x>> \o SubSeq(s, pos, Len(s))

\* The environment creates ~/.claude or ./.claude.
MakeDir(tier) ==
    /\ call = Idle
    /\ ~dirs[tier].exists
    /\ dirs' = [dirs EXCEPT ![tier].exists = TRUE]
    /\ UNCHANGED <<call, stderr, content, parsed>>

\* The environment writes a rule file; glob may list it at any position.
WriteFile(tier, fname, pos) ==
    /\ call = Idle
    /\ dirs[tier].exists
    /\ FileCount < MaxFiles
    /\ pos <= Len(dirs[tier].files) + 1
    /\ \A i \in 1..Len(dirs[tier].files) : dirs[tier].files[i] # fname
    /\ dirs' = [dirs EXCEPT ![tier].files = InsertAt(@, pos, fname)]
    /\ UNCHANGED <<call, stderr, content, parsed>>

\* A call of load_rules(event).
LoadRules(event) ==
    /\ call = Idle
    /\ \E r \in {load_rules(dirs, event)} :
        /\ call' = [op |-> r.op, event |-> r.event, exc |-> r.exc, user |-> r.user,
                    project |-> r.project, rules |-> r.rules]
        /\ stderr' = r.diags
    /\ UNCHANGED <<dirs, content, parsed>>

\* A call of list_all_rules().
ListAllRules ==
    /\ call = Idle
    /\ \E r \in {list_all_rules(dirs)} :
        /\ call' = [op |-> r.op, event |-> r.event, exc |-> r.exc, user |-> r.user,
                    project |-> r.project, rules |-> r.rules]
        /\ stderr' = r.diags
    /\ UNCHANGED <<dirs, content, parsed>>

\* The caller takes the result (or the exception); the next call starts afresh.
Return ==
    /\ call # Idle
    /\ call' = Idle
    /\ stderr' = <<>>
    /\ UNCHANGED <<dirs, content, parsed>>

Next ==
    \/ \E tier \in Tiers : MakeDir(tier)
    \/ \E tier \in Tiers, fname \in FileNames, pos \in 1..MaxFiles :
            WriteFile(tier, fname, pos)
    \/ \E event \in RequestedEvents : LoadRules(event)
    \/ ListAllRules
    \/ Return

Spec == Init /\ [][Next]_vars

(***************************************************************************)
(* Behaviour of the parser specification: one text, parsed or loaded.      *)
(***************************************************************************)
InitParse ==
    /\ dirs = [tier \in Tiers |-> NoDir]
    /\ call = Idle
    /\ stderr = <<>>
    /\ content \in ParseInputs
    /\ parsed = Unparsed

\* extract_frontmatter(content)
ExtractFrontmatter ==
    /\ parsed = Unparsed
    /\ LET r == extract_frontmatter(content) IN
        parsed' = [op |-> "extract_frontmatter", frontmatter |-> r.frontmatter,
                   message |-> r.message]
    /\ UNCHANGED <<dirs, call, stderr, content>>

\* load_rule_file(path, source) of a file holding content
LoadRuleFile(source) ==
    /\ parsed = Unparsed
    /\ LET r == load_rule_file([path |-> <<source, "f">>, kind |-> "text", text |-> content],
                               source) IN
        /\ parsed' = [op |-> "load_rule_file", exc |-> r.exc, rule |-> r.rule]
        /\ stderr' = r.diag
    /\ UNCHANGED <<dirs, call, content>>

\* _load_rules_from_dir(rules_dir, source, event) of a directory that holds
\* one rule file, with content as its text.
LoadRulesFromDir(source, event) ==
    /\ parsed = Unparsed
    /\ \E got \in {load_rule_file([path |-> <<source, "f">>, kind |-> "text",
                                   text |-> content], source)} :
       \E r \in {LoadOne([exc |-> "", rules |-> <<>>, diags |-> <<>>], got,
                         <<source, "f">>, event)} :
            /\ parsed' = [op |-> "load_rules_from_dir", event |-> event, exc |-> r.exc,
                          loaded |-> got.rule, rules |-> r.rules]
            /\ stderr' = r.diags
    /\ UNCHANGED <<dirs, call, content>>

NextParse ==
    \/ ExtractFrontmatter
    \/ \E source \in Tiers : LoadRuleFile(source)
    \/ \E source \in Tiers, event \in RequestedEvents : LoadRulesFromDir(source, event)

SpecParse == InitParse /\ [][NextParse]_vars

(***************************************************************************)
(* Behaviour of the loop of extract_frontmatter: the header is read line   *)
(* by line (specification SpecLines).  parsed holds the lines read so far  *)
(* and the parser's locals after them; at the end of the header the whole  *)
(* document is parsed by extract_frontmatter.                              *)
(***************************************************************************)
\* "k:": a top-level key that opens a list
l_key_k == <<"k", ":">>
\* "j:": another top-level key that opens a list
l_key_j == <<"j", ":">>
\* ":": a top-level key line whose key is empty
l_key_empty == <<":">>
\* "n: v": a top-level key with a scalar value
l_scalar == <<"n", ":", " ", "v">>
\* "- 'x'": a plain scalar list item, quoted
l_item == <<"-", " ", "'", "x", "'">>
\* "- a: b": the first line of a multi-line map item
l_dict == <<"-", " ", "a", ":", " ", "b">>
\* "- a: b, c: d": an inline map item
l_inline == <<"-", " ", "a", ":", " ", "b", ",", " ", "c", ":", " ", "d">>
\* "- a:b:c": a list item with two colons and no comma
l_colons == <<"-", " ", "a", ":", "b", ":", "c">>
\* "    c: d": a line indented four columns, with a colon
l_cont == <<" ", " ", " ", " ", "c", ":", " ", "d">>
\* "    a: 'e'": a line indented four columns that repeats the key a, quoted value
l_cont_a == <<" ", " ", " ", " ", "a", ":", " ", "'", "e", "'">>
\* "  a: e": a line indented two columns, with a colon
l_shallow == <<" ", " ", "a", ":", " ", "e">>
\* "    x": a line indented four columns, without a colon
l_deep == <<" ", " ", " ", " ", "x">>
\* "    #c: d": a comment line, indented and with a colon
l_comment == <<" ", " ", " ", " ", "#", "c", ":", " ", "d">>
\* "": a blank line
l_blank == <<>>
\* "x": a line without indentation and without a colon
l_word == <<"x">>
\* "#---": a comment line that holds the three-dash marker
l_marked == <<"#", "-", "-", "-">>

\* The lines a header may be made of, in three families: list items and
\* their continuations; keys and the items under them; lines the loop skips
\* or does not recognise.
Families ==
    [items |-> {l_key_k, l_item, l_dict, l_inline, l_colons, l_cont, l_cont_a, l_shallow,
                l_deep},
     keys |-> {l_key_k, l_key_j, l_key_empty, l_scalar, l_item, l_dict, l_cont},
     skipped |-> {l_key_k, l_scalar, l_dict, l_cont, l_shallow, l_comment, l_blank,
                  l_word, l_marked}]

\* Bound: the number of lines of a header.
MaxLines == 4

HasMarker(line) == find(line, Marker, 1) # 0

\* What the loop sees of a line: all of it, or, since the header ends at the
\* second marker of the text, what precedes the marker.
SeenOf(line) == IF HasMarker(line) THEN SubSeq(line, 1, find(line, Marker, 1) - 1) ELSE line

\* The document whose header holds these lines.
DocOf(lines) == Doc(lines, <<"m">>)

InitLines ==
    /\ dirs = [tier \in Tiers |-> NoDir]
    /\ call = Idle
    /\ stderr = <<>>
    /\ content = <<>>
    /\ parsed \in {[op |-> "loop", family |-> f, lines |-> <<>>, closed |-> FALSE,
                     line |-> <<>>, before |-> ParserStart, st |-> ParserStart]
                        : f \in DOMAIN Families}

\* One iteration of "for line in lines": the next line of the header is
\* read.  before and st are the parser's locals before and after it.
ReadLine(line) ==
    /\ parsed.op = "loop"
    /\ ~parsed.closed
    /\ Len(parsed.lines) < MaxLines
    /\ line \in Families[parsed.family]
    /\ parsed' = [parsed EXCEPT !.lines = Append(@, line),
                                 !.closed = HasMarker(line),
                                 !.line = SeenOf(line),
                                 !.before = parsed.st,
                                 !.st = ParseLine(parsed.st, SeenOf(line))]
    /\ UNCHANGED <<dirs, call, stderr, content>>

\* The header ends: extract_frontmatter(content) of the whole document.
EndOfHeader ==
    /\ parsed.op = "loop"
    /\ content' = DocOf(parsed.lines)
    /\ \E r \in {extract_frontmatter(DocOf(parsed.lines))} :
            parsed' = [op |-> "extract_frontmatter", family |-> parsed.family,
                       lines |-> parsed.lines, st |-> parsed.st,
                       frontmatter |-> r.frontmatter, message |-> r.message]
    /\ UNCHANGED <<dirs, call, stderr>>

NextLines ==
    \/ \E line \in UNION {Families[f] : f \in DOMAIN Families} : ReadLine(line)
    \/ EndOfHeader

SpecLines == InitLines /\ [][NextLines]_vars

\* The loop read line by line and extract_frontmatter on the whole document
\* agree on the header mapping.
LoopAgrees == parsed.op = "extract_frontmatter" => parsed.frontmatter = FlushFinal(parsed.st)
(***************************************************************************)
(* Properties of the loader (specification Spec)                           *)
(***************************************************************************)
\* The header each catalogue file parses to.
Headers == [f \in FileNames |-> extract_frontmatter(Catalog[f].text).frontmatter] @@ <<>>

\* What the file of that name in that tier's directory loads to: a Rule or None.
RuleOf(tier, fname) == LoadedFiles[<<<<tier, fname>>, tier>>].rule

\* The names of the files now in the directory of a tier.
FilesIn(tier) == {dirs[tier].files[i] : i \in 1..Len(dirs[tier].files)}

\* The positions in a list of rules that hold a rule of that name.
Named(rules, name) == {i \in 1..Len(rules) : rules[i].name = name}

InList(rules, r) == \E i \in 1..Len(rules) : rules[i] = r

\* The file is the only one of its tier's directory that loads to a rule of its name.
OnlyOfItsName(tier, fname) ==
    \A g \in FilesIn(tier) \ {fname} :
        RuleOf(tier, g) = PyNone \/ RuleOf(tier, g).name # RuleOf(tier, fname).name

\* The event of the rule passes the call's event filter (no event asked, "all", or equal).
EventMatches(r, event) == event = PyNone \/ r.event = PyStr(s_all) \/ r.event = event

Returned(op) == call.op = op /\ call.exc = ""

\* C1: when a user-tier file and a project-tier file load to rules of the
\* same name with different enabled values (whichever is the disabled one),
\* the result of load_rules holds exactly one rule of that name and it is
\* the project-tier rule.  (Stated for calls whose event filter lets both
\* rules through, each the only rule of its name in its tier.)
C1_ProjectVersionWins ==
    Returned("load_rules") =>
        \A u \in FilesIn(SOURCE_USER), p \in FilesIn(SOURCE_PROJECT) :
            LET ru == RuleOf(SOURCE_USER, u)
                rp == RuleOf(SOURCE_PROJECT, p)
            IN (/\ ru # PyNone /\ rp # PyNone
                /\ ru.name = rp.name
                /\ ru.enabled # rp.enabled
                /\ EventMatches(ru, call.event) /\ EventMatches(rp, call.event)
                /\ OnlyOfItsName(SOURCE_USER, u) /\ OnlyOfItsName(SOURCE_PROJECT, p))
               => /\ Cardinality(Named(call.rules, rp.name)) = 1
                  /\ \A i \in Named(call.rules, rp.name) : call.rules[i] = rp

\* C2: list_all_rules is unfiltered: every file of a tier that loads to a
\* rule with enabled = False is in that tier's list of the result.
C2_ListAllIncludesDisabled ==
    Returned("list_all_rules") =>
        \A tier \in Tiers : \A f \in FilesIn(tier) :
            (RuleOf(tier, f) # PyNone /\ RuleOf(tier, f).enabled = PyBool(FALSE))
                => InList(call[tier].rules, RuleOf(tier, f))

\* The files of either tier that load to an enabled rule.
EnabledFiles ==
    {x \in Paths : /\ x[2] \in FilesIn(x[1])
                   /\ RuleOf(x[1], x[2]) # PyNone
                   /\ Truthy(RuleOf(x[1], x[2]).enabled)}

\* C3: event filtering.  When the enabled rules have pairwise distinct
\* names, load_rules(e) returns an enabled rule if and only if its event is
\* "all" or equals e; with no event requested it returns every enabled rule.
C3_EventFilter ==
    (/\ Returned("load_rules")
     /\ \A x, y \in EnabledFiles :
            x # y => RuleOf(x[1], x[2]).name # RuleOf(y[1], y[2]).name)
    => \A x \in EnabledFiles :
            LET r == RuleOf(x[1], x[2]) IN
            InList(call.rules, r)
                <=> (call.event = PyNone \/ r.event = PyStr(s_all) \/ r.event = call.event)

\* C3 witness: rules for "bash", "file" and "all" are present, "bash" was
\* requested, and the "bash" and "all" rules came back without the "file" rule.
C3_Witness ==
    /\ Returned("load_rules") /\ call.event = PyStr(s_bash)
    /\ Cardinality(EnabledFiles) = 3
    /\ {RuleOf(x[1], x[2]).event : x \in EnabledFiles}
            = {PyStr(s_bash), PyStr(s_file), PyStr(s_all)}
    /\ Len(call.rules) = 2
    /\ {call.rules[i].event : i \in 1..Len(call.rules)} = {PyStr(s_bash), PyStr(s_all)}

\* C4: every rule load_rules returns is enabled, and a file whose header
\* says enabled: false contributes no rule to the output of load_rules,
\* whatever the event filter and the tier.
C4_OnlyEnabled ==
    call.op = "load_rules" =>
        /\ \A i \in 1..Len(call.rules) :
                Truthy(call.rules[i].enabled) /\ call.rules[i].enabled # PyBool(FALSE)
        /\ \A tier \in Tiers : \A f \in FilesIn(tier) :
                DictGet(Headers[f], s_enabled, PyNone) = PyBool(FALSE)
                    => \A i \in 1..Len(call.rules) : call.rules[i].source_path # <<tier, f>>

\* C4 witness: load_rules returned rules while a file with enabled: false
\* was in a directory.
C4_Witness ==
    /\ Returned("load_rules") /\ Len(call.rules) > 0
    /\ \E tier \in Tiers : \E f \in FilesIn(tier) :
            /\ DictGet(Headers[f], s_enabled, PyNone) = PyBool(FALSE)
            /\ EventMatches(RuleOf(tier, f), call.event)

\* The file cannot be loaded: it cannot be read or decoded, its header is
\* empty, or its conditions list holds an entry that is no map.
FailsToLoad(f) ==
    \/ Catalog[f].kind # "text"
    \/ Headers[f] = EmptyDict
    \/ /\ s_conditions \in DOMAIN Headers[f]
       /\ Headers[f][s_conditions].t = "list"
       /\ \E i \in 1..Len(Headers[f][s_conditions].l) : Headers[f][s_conditions].l[i].t = "str"

\* C7: per-file failure isolation.  A directory load never raises; a file
\* that fails contributes no rule and a diagnostic; every other file that
\* loads to an enabled rule passing the event filter is in the result,
\* wherever the failing files stand in the listing.
C7_FailureIsolation ==
    call.op \in {"load_rules", "list_all_rules"} =>
        \A tier \in Tiers :
            call[tier].ran =>
                /\ call[tier].exc = ""
                /\ \A f \in FilesIn(tier) :
                    IF FailsToLoad(f)
                    THEN /\ \A i \in 1..Len(call[tier].rules) :
                                call[tier].rules[i].source_path # <<tier, f>>
                         /\ \E k \in 1..Len(stderr) : stderr[k].path = <<tier, f>>
                    ELSE /\ RuleOf(tier, f) # PyNone
                         /\ (Truthy(RuleOf(tier, f).enabled)
                                /\ EventMatches(RuleOf(tier, f), call.event))
                            => InList(call[tier].rules, RuleOf(tier, f))

\* C7 witness: a directory lists a failing file before a loadable one, and
\* the loadable file's rule is in the result of the directory load.
C7_Witness ==
    /\ call.op \in {"load_rules", "list_all_rules"}
    /\ \E tier \in Tiers :
        /\ call[tier].ran
        /\ Len(dirs[tier].files) >= 2
        /\ FailsToLoad(dirs[tier].files[1])
        /\ ~FailsToLoad(dirs[tier].files[2])
        /\ InList(call[tier].rules, RuleOf(tier, dirs[tier].files[2]))

\* C10: the overlay replaces the whole record.  When a user-tier rule and a
\* project-tier rule of one name both pass the enabled and event filters,
\* load_rules returns exactly one rule of that name and it is the project
\* file's rule in every field; nothing of the user-tier rule remains.
C10_WholeRecordReplacement ==
    Returned("load_rules") =>
        \A u \in FilesIn(SOURCE_USER), p \in FilesIn(SOURCE_PROJECT) :
            LET ru == RuleOf(SOURCE_USER, u)
                rp == RuleOf(SOURCE_PROJECT, p)
            IN (/\ ru # PyNone /\ rp # PyNone
                /\ ru.name = rp.name
                /\ Truthy(ru.enabled) /\ Truthy(rp.enabled)
                /\ EventMatches(ru, call.event) /\ EventMatches(rp, call.event)
                /\ OnlyOfItsName(SOURCE_PROJECT, p))
               => /\ Cardinality(Named(call.rules, rp.name)) = 1
                  /\ \A i \in Named(call.rules, rp.name) :
                        /\ call.rules[i] = rp
                        /\ call.rules[i].source = SOURCE_PROJECT
                        /\ call.rules[i].source_path = <<SOURCE_PROJECT, p>>
                        /\ call.rules[i].enabled = DictGet(Headers[p], s_enabled, PyBool(TRUE))
                        /\ call.rules[i].event = DictGet(Headers[p], s_event, PyStr(s_all))
                        /\ call.rules[i].action = DictGet(Headers[p], s_action, PyStr(s_warn))
                        /\ call.rules[i].tool_matcher = DictGet(Headers[p], s_tool_matcher, PyNone)

\* C10 witness: the user tier and the project tier hold rules of one name
\* that differ in every header field, both pass the filters, and the one
\* rule of that name returned carries the project file's action.
C10_Witness ==
    /\ Returned("load_rules")
    /\ \E u \in FilesIn(SOURCE_USER), p \in FilesIn(SOURCE_PROJECT) :
        LET ru == RuleOf(SOURCE_USER, u)
            rp == RuleOf(SOURCE_PROJECT, p)
        IN /\ ru # PyNone /\ rp # PyNone
           /\ ru.name = rp.name
           /\ Truthy(ru.enabled) /\ Truthy(rp.enabled)
           /\ EventMatches(ru, call.event) /\ EventMatches(rp, call.event)
           /\ ru.enabled # rp.enabled /\ ru.event # rp.event /\ ru.action # rp.action
           /\ ru.conditions # rp.conditions /\ ru.message # rp.message
           /\ ru.tool_matcher # rp.tool_matcher
           /\ \E i \in 1..Len(call.rules) : call.rules[i] = rp /\ rp.action = PyStr(s_block)

(***************************************************************************)
(* Properties of the parser and of Rule.from_dict (specification SpecParse)*)
(***************************************************************************)
\* The header mapping the text parses to.
HeaderOf(text) == extract_frontmatter(text).frontmatter

\* load_rule_file was applied to content and gave a Rule.
LoadedARule == parsed.op = "load_rule_file" /\ parsed.rule # PyNone

\* The Condition the legacy pattern of header h stands for.
LegacyCondition(h) ==
    [field |-> IF s_event \in DOMAIN h /\ h[s_event] = PyStr(s_bash) THEN PyStr(s_command)
               ELSE IF s_event \in DOMAIN h /\ h[s_event] = PyStr(s_file) THEN PyStr(s_new_text)
               ELSE PyStr(s_content),
     operator |-> PyStr(s_regex_match),
     pattern |-> h[s_pattern]]

\* C5: legacy pattern inference.  Whenever the header supplies a pattern
\* field and no conditions, the Rule has exactly one Condition: operator
\* "regex_match", the header's pattern, and field "command" for event
\* "bash", "new_text" for "file", "content" for any other or absent event.
C5_LegacyPatternInference ==
    LoadedARule =>
        LET h == HeaderOf(content) IN
        (s_pattern \in DOMAIN h /\ s_conditions \notin DOMAIN h)
            => parsed.rule.conditions = <<LegacyCondition(h)>>

\* The list under the header's conditions key, element by element as
\* Conditions: a missing operator is "regex_match", a missing field or
\* pattern the empty string.
Converted(l) ==
    [i \in 1..Len(l) |->
        [field |-> PyStr(IF s_field \in DOMAIN l[i].d THEN l[i].d[s_field] ELSE <<>>),
         operator |-> PyStr(IF s_operator \in DOMAIN l[i].d THEN l[i].d[s_operator]
                            ELSE s_regex_match),
         pattern |-> PyStr(IF s_pattern \in DOMAIN l[i].d THEN l[i].d[s_pattern] ELSE <<>>)]]

HasConditionsList(h) == s_conditions \in DOMAIN h /\ h[s_conditions].t = "list"

\* C6 as claimed: whenever the header's conditions key holds a sequence of
\* any length, the empty one included, the Rule's conditions are exactly
\* its element-wise conversion, and a pattern that is also present adds none.
C6_ExplicitConditionsAnyLength ==
    LoadedARule =>
        LET h == HeaderOf(content) IN
        HasConditionsList(h) => parsed.rule.conditions = Converted(h[s_conditions].l)

\* C6 as amended: whenever the header's conditions key holds a non-empty
\* sequence of maps, the Rule's conditions are exactly its element-wise
\* conversion in declared order and a pattern that is also present adds
\* none; an empty sequence does not take precedence: with a non-empty
\* pattern the Rule then has the one legacy Condition, else no Condition.
C6_ExplicitConditionsNonEmpty ==
    LoadedARule =>
        LET h == HeaderOf(content) IN
        HasConditionsList(h) =>
            IF Len(h[s_conditions].l) > 0
            THEN parsed.rule.conditions = Converted(h[s_conditions].l)
            ELSE IF s_pattern \in DOMAIN h /\ Truthy(h[s_pattern])
            THEN parsed.rule.conditions = <<LegacyCondition(h)>>
            ELSE parsed.rule.conditions = <<>>

\* C6 witness: a header with a pattern and a conditions list of two maps,
\* one of them without operator, loaded to a Rule with those two Conditions.
C6_Witness ==
    /\ LoadedARule
    /\ LET h == HeaderOf(content) IN
        /\ HasConditionsList(h)
        /\ Len(h[s_conditions].l) = 2
        /\ s_pattern \in DOMAIN h /\ Truthy(h[s_pattern])
        /\ \E i \in 1..2 : s_operator \notin DOMAIN h[s_conditions].l[i].d
        /\ Len(parsed.rule.conditions) = 2
        /\ \E i \in 1..2 : parsed.rule.conditions[i].operator = PyStr(s_regex_match)
        /\ \E i \in 1..2 : parsed.rule.conditions[i].operator = PyStr(s_contains)

WhitespaceOnly(text) == \A i \in 1..Len(text) : text[i] \in Whitespace

\* The text begins with the three-dash marker.
BeginsWithMarker(text) == Len(text) >= 3 /\ SubSeq(text, 1, 3) = Marker

\* The text opens with the marker and its header, which ends with the
\* marker at position k, holds nothing but whitespace.
EmptyHeaderUpTo(text, k) ==
    /\ k >= 4 /\ k + 2 <= Len(text)
    /\ BeginsWithMarker(text)
    /\ SubSeq(text, k, k + 2) = Marker
    /\ WhitespaceOnly(SubSeq(text, 4, k - 1))

\* The diagnostic load_rule_file prints for a file without header.
MissingHeaderDiagnostic(path) == <<[path |-> path, what |-> "missing_frontmatter"]>>

\* C8: load_rule_file gives no Rule and one diagnostic, and raises nothing,
\* whenever the parsed header mapping is empty: a whitespace-only text, a
\* text without the leading marker and a text with a present but empty
\* header are rejected alike, while extract_frontmatter itself returns, for
\* the present but empty header, the empty mapping and the trimmed body.
C8_EmptyHeaderRejected ==
    /\ parsed.op = "load_rule_file" =>
        /\ parsed.exc = ""
        /\ (\/ HeaderOf(content) = EmptyDict
            \/ WhitespaceOnly(content)
            \/ ~BeginsWithMarker(content)
            \/ \E k \in 1..Len(content) : EmptyHeaderUpTo(content, k))
           => /\ parsed.rule = PyNone
              /\ \E source \in Tiers : stderr = MissingHeaderDiagnostic(<<source, "f">>)
    /\ parsed.op = "extract_frontmatter" =>
        \A k \in 1..Len(content) :
            EmptyHeaderUpTo(content, k)
                => /\ parsed.frontmatter = EmptyDict
                   /\ parsed.message = strip(SubSeq(content, k + 3, Len(content)))

\* C8 witness: a text with an empty header and a body was loaded; it gave
\* no Rule and the diagnostic.
C8_Witness ==
    /\ parsed.op = "load_rule_file"
    /\ \E k \in 1..Len(content) :
            EmptyHeaderUpTo(content, k) /\ strip(SubSeq(content, k + 3, Len(content))) # <<>>
    /\ parsed.rule = PyNone
    /\ Len(stderr) = 1

\* The text holds a marker after its leading one.
HasSecondMarker(text) ==
    \E j \in 4..(Len(text) - 2) : SubSeq(text, j, j + 2) = Marker

\* C9: the no-header fallback.  For every text that does not begin with
\* the marker, and for every text that begins with it but holds no second
\* marker, extract_frontmatter returns the empty header and the text
\* itself, untrimmed, as the body.
C9_NoHeaderFallback ==
    (/\ parsed.op = "extract_frontmatter"
     /\ (~BeginsWithMarker(content) \/ ~HasSecondMarker(content)))
    => /\ parsed.frontmatter = EmptyDict
       /\ parsed.message = content

\* C9 witness: a text that begins with the marker, holds no second one and
\* ends in whitespace was parsed, and came back whole as the body.
C9_Witness ==
    /\ parsed.op = "extract_frontmatter"
    /\ Len(content) > 3
    /\ BeginsWithMarker(content)
    /\ ~HasSecondMarker(content)
    /\ content[Len(content)] \in Whitespace
    /\ parsed.message = content
(***************************************************************************)
(* Properties of the loop of extract_frontmatter (specification SpecLines) *)
(***************************************************************************)
\* The lines of the header as the loop sees them.
HeaderLines == [i \in 1..Len(parsed.lines) |-> SeenOf(parsed.lines[i])]

\* The line is blank or a comment.
Skipped(line) == strip(line) = <<>> \/ strip(line)[1] = "#"

\* The line begins, after its indentation, with the list marker.
MarkerLine(line) == strip(line) # <<>> /\ strip(line)[1] = "-"

\* The line has no indentation.
Unindented(line) == line # <<>> /\ line[1] \notin Whitespace

\* The line is a top-level entry: not indented, with a colon, no list marker.
TopLevelEntry(line) ==
    ~Skipped(line) /\ Unindented(line) /\ contains(line, ":") /\ ~MarkerLine(line)

\* The text before (which = 1) or after (which = 2) the first colon of the line, trimmed.
AroundColon(line, which) == strip(split(line, <<":">>, 1)[which])

\* The line declares K: a top-level "K:" with no value.
Declares(line, K) ==
    TopLevelEntry(line) /\ AroundColon(line, 1) = K /\ AroundColon(line, 2) = <<>>

\* The position of the first top-level entry after position d, or one past the end.
NextEntry(lines, d) ==
    LET later == {i \in (d + 1)..Len(lines) : TopLevelEntry(lines[i])}
    IN IF later = {} THEN Len(lines) + 1 ELSE CHOOSE i \in later : \A j \in later : i <= j

\* The header was parsed to its end.
AtEnd == parsed.op = "extract_frontmatter"

\* The list stored under K is the one the lines from K's declaration at d
\* up to the next top-level entry give on their own.
OwnItemsOnly(lines, K, d) ==
    LET alone == HeaderOf(DocOf(SubSeq(lines, d, NextEntry(lines, d) - 1)))
    IN K \in DOMAIN alone /\ parsed.frontmatter[K] = alone[K]

\* C11: items are flushed under their owning key and never leak between
\* keys.  After parsing a header, every key K declared by a top-level "K:"
\* line (the last such line, if K is declared again) is stored with a list,
\* and that list is exactly the items of the list-marker lines between the
\* declaration and the next top-level entry, in order: it is the list those
\* lines give on their own, whatever precedes them.  A pending multi-line
\* map item is appended to K's list and to no other.
C11_ItemsUnderOwningKey ==
    AtEnd =>
        \A d \in 1..Len(HeaderLines) :
            LET K == AroundColon(HeaderLines[d], 1) IN
            (/\ Declares(HeaderLines[d], K)
             /\ K # <<>>
             /\ \A i \in (d + 1)..Len(HeaderLines) : ~Declares(HeaderLines[i], K))
            => /\ K \in DOMAIN parsed.frontmatter
               /\ OwnItemsOnly(HeaderLines, K, d)

\* The text of a list-marker line after its marker, trimmed.
ItemText(line) == strip(Tail(strip(line)))

\* The kind of element a list-marker line selects: a map when its text holds
\* a colon (inline with a comma, multi-line without), else a string.
SelectedKind(line) == IF contains(ItemText(line), ":") THEN "dict" ELSE "str"

\* The positions of the list-marker lines below the declaration at d, up to
\* the next top-level entry.
MarkersBelow(lines, d) ==
    {i \in (d + 1)..(NextEntry(lines, d) - 1) : MarkerLine(lines[i])}

\* The element is the one the list-marker line introduces: of the selected
\* kind, a scalar with the line's text, a map with the key the line opens with.
Introduces(line, element) ==
    /\ element.t = SelectedKind(line)
    /\ element.t = "str" => element.s = strip_quotes(ItemText(line))
    /\ element.t = "dict" =>
            \E part \in {split(ItemText(line), <<",">>, -1)[n] :
                            n \in 1..Len(split(ItemText(line), <<",">>, -1))} :
                contains(part, ":") /\ AroundColon(part, 1) \in DOMAIN element.d

\* C12: mixed list syntax.  For the list under a key whose list-marker lines
\* are any mix of inline maps, multi-line maps (with their continuation
\* lines) and plain scalars, the stored list has exactly one element per
\* list-marker line, in document order, each of the kind its line selects.
C12_OneElementPerMarkerLine ==
    AtEnd =>
        \A d \in 1..Len(HeaderLines) :
            LET K == AroundColon(HeaderLines[d], 1)
                ms == MarkersBelow(HeaderLines, d)
            IN (/\ Declares(HeaderLines[d], K)
                /\ K # <<>>
                /\ \A i \in (d + 1)..Len(HeaderLines) : ~Declares(HeaderLines[i], K))
               => /\ K \in DOMAIN parsed.frontmatter
                  /\ parsed.frontmatter[K].t = "list"
                  /\ Len(parsed.frontmatter[K].l) = Cardinality(ms)
                  /\ \A i \in ms :
                        Introduces(HeaderLines[i],
                                   parsed.frontmatter[K].l[Cardinality({j \in ms : j <= i})])

\* A line was read by the loop: parsed.before and parsed.st are the
\* parser's locals before and after parsed.line.
LineRead == parsed.op = "loop" /\ parsed.lines # <<>>

\* A list-marker line was read while a list was open.
ItemRead == LineRead /\ MarkerLine(parsed.line) /\ parsed.before.in_list

\* The open list before the item, with the pending map item, if any, appended.
ListBefore ==
    IF parsed.before.in_dict_item /\ parsed.before.current_dict # EmptyDict
    THEN Append(parsed.before.current_list, PyDict(parsed.before.current_dict))
    ELSE parsed.before.current_list

\* The number of colons of a text.
Colons(text) == Cardinality({i \in 1..Len(text) : text[i] = ":"})

\* The map of the comma-separated "key: value" pairs of a text: every part
\* with a colon gives a pair, a later pair of the same key replacing an earlier.
PairsOf(text, d) ==
    LET parts == split(text, <<",">>, -1)
        pairs == {n \in 1..Len(parts) : contains(parts[n], ":")}
    IN /\ DOMAIN d = {AroundColon(parts[n], 1) : n \in pairs}
       /\ \A n \in pairs :
            (\A m \in pairs : m > n => AroundColon(parts[m], 1) # AroundColon(parts[n], 1))
                => d[AroundColon(parts[n], 1)] = strip_quotes(AroundColon(parts[n], 2))

\* (a) the item was appended as an inline map of its pairs
AsInlineMap ==
    /\ Len(parsed.st.current_list) = Len(ListBefore) + 1
    /\ SubSeq(parsed.st.current_list, 1, Len(ListBefore)) = ListBefore
    /\ parsed.st.current_list[Len(ListBefore) + 1].t = "dict"
    /\ PairsOf(ItemText(parsed.line), parsed.st.current_list[Len(ListBefore) + 1].d)
    /\ ~parsed.st.in_dict_item

\* (b) the item opened a multi-line map seeded with its key and value
AsOpenMap ==
    /\ parsed.st.current_list = ListBefore
    /\ parsed.st.in_dict_item
    /\ parsed.st.current_dict =
            (AroundColon(ItemText(parsed.line), 1)
                :> strip_quotes(AroundColon(ItemText(parsed.line), 2)))

\* (c) the item was appended as a plain scalar, quotes stripped
AsScalar ==
    /\ parsed.st.current_list = Append(ListBefore, PyStr(strip_quotes(ItemText(parsed.line))))
    /\ ~parsed.st.in_dict_item

\* C13 as claimed: a list-marker line read while a list is open becomes
\* (a) with a comma and at least one colon an inline map of its pairs,
\* (b) with exactly one colon and no comma an open multi-line map item,
\* (c) in every other case, two or more colons and no comma included, a
\* plain scalar entry.
C13_ClassifiedByColonCount ==
    ItemRead =>
        LET text == ItemText(parsed.line) IN
        IF contains(text, ",") /\ Colons(text) >= 1 THEN AsInlineMap
        ELSE IF Colons(text) = 1 THEN AsOpenMap
        ELSE AsScalar

\* C13 as amended: (a) as claimed; (b) with at least one colon and no comma
\* the item opens a multi-line map item seeded with the key before the first
\* colon and the value after it; (c) only an item without any colon is a
\* plain scalar entry.
C13_ClassifiedByColonPresence ==
    ItemRead =>
        LET text == ItemText(parsed.line) IN
        IF contains(text, ",") /\ Colons(text) >= 1 THEN AsInlineMap
        ELSE IF Colons(text) >= 1 THEN AsOpenMap
        ELSE AsScalar

\* C13 witness: with a map item pending, an item with two colons and no
\* comma was read and opened a map item whose value holds the second colon.
C13_Witness ==
    /\ ItemRead
    /\ Len(ListBefore) > Len(parsed.before.current_list)
    /\ Colons(ItemText(parsed.line)) = 2
    /\ ~contains(ItemText(parsed.line), ",")
    /\ parsed.st.in_dict_item
    /\ parsed.st.current_dict = (<<"a">> :> <<"b", ":", "c">>)

\* The number of columns a line is indented by.
Indent(line) == Len(line) - Len(lstrip(line))

\* The line is indented more than two columns, holds a colon and is no
\* list-marker line.
ContinuationLine(line) == Indent(line) > 2 /\ contains(line, ":") /\ ~MarkerLine(line)

\* d with the pair of the line (split at its first colon, quotes stripped)
\* added, a repeated key overwritten.
WithPair(d, line) ==
    [x \in DOMAIN d \cup {AroundColon(line, 1)} |->
        IF x = AroundColon(line, 1) THEN strip_quotes(AroundColon(line, 2)) ELSE d[x]]

\* The map item is the last element of the list stored under the key.
StoredLast(frontmatter, key, item) ==
    /\ key.t = "str"
    /\ key.s \in DOMAIN frontmatter
    /\ frontmatter[key.s].t = "list"
    /\ frontmatter[key.s].l # <<>>
    /\ frontmatter[key.s].l[Len(frontmatter[key.s].l)] = PyDict(item)

\* C14: multi-line map continuation.  While a multi-line map item is open,
\* every line read that is indented more than two columns and holds a colon
\* adds its pair to that open item and changes nothing else; the item is
\* open until the next list marker, top-level key or the end of the input,
\* where it is stored, with the seeding pair and all pairs merged so far,
\* as the last element of its key's list.
C14_ContinuationMerged ==
    /\ (LineRead /\ parsed.before.in_dict_item /\ ContinuationLine(parsed.line))
        => parsed.st = [parsed.before EXCEPT !.current_dict = WithPair(@, parsed.line)]
    /\ (LineRead /\ parsed.before.in_dict_item /\ TopLevelEntry(parsed.line))
        => /\ ~parsed.st.in_dict_item
           /\ StoredLast(parsed.st.frontmatter, parsed.before.current_key,
                         parsed.before.current_dict)
    /\ (AtEnd /\ parsed.st.in_dict_item)
        => StoredLast(parsed.frontmatter, parsed.st.current_key, parsed.st.current_dict)

\* The lines without those that are blank or comments.
WithoutSkipped(lines) == SelectSeq(lines, LAMBDA l : ~Skipped(l))

\* What extract_frontmatter returned for the document is what it returns
\* for the document of these lines.
SameResultAs(lines) ==
    /\ parsed.frontmatter = extract_frontmatter(DocOf(lines)).frontmatter
    /\ parsed.message = extract_frontmatter(DocOf(lines)).message

\* C15: blank and comment lines are transparent.  In any parser
\* state a line that is blank or whose stripped content starts with "#"
\* leaves the parser's locals unchanged, and the document without such lines
\* gives the same header mapping and the same body.
C15_SkippedLinesTransparent ==
    /\ (LineRead /\ Skipped(parsed.line)) => parsed.st = parsed.before
    /\ AtEnd => SameResultAs(WithoutSkipped(parsed.lines))

(***************************************************************************)
(* Properties of scalar coercion and enablement (specification SpecParse)  *)
(***************************************************************************)
\* The lines of the header segment of a text that has one.
SegmentLines(text) == split(split(text, Marker, 2)[2], NL, -1)

\* The value is, quotes stripped, the token in any case.
IsToken(v, token) == lower(strip_quotes(v)) = token

\* What a top-level scalar value is stored as.
Coerced(v) ==
    IF IsToken(v, s_true) THEN PyBool(TRUE)
    ELSE IF IsToken(v, s_false) THEN PyBool(FALSE)
    ELSE PyStr(strip_quotes(v))

\* Every top-level "key: value" line of the header that no later top-level
\* line of the same key follows is stored coerced: a boolean exactly when
\* the value is the token true or false, else the string.
ScalarsCoerced ==
    (parsed.op = "extract_frontmatter" /\ BeginsWithMarker(content) /\ HasSecondMarker(content))
    => LET lines == SegmentLines(content) IN
       \A i \in 1..Len(lines) :
            (/\ TopLevelEntry(lines[i])
             /\ AroundColon(lines[i], 2) # <<>>
             /\ \A j \in (i + 1)..Len(lines) :
                    ~(TopLevelEntry(lines[j])
                        /\ AroundColon(lines[j], 1) = AroundColon(lines[i], 1)))
            => /\ AroundColon(lines[i], 1) \in DOMAIN parsed.frontmatter
               /\ parsed.frontmatter[AroundColon(lines[i], 1)] = Coerced(AroundColon(lines[i], 2))

\* The directory load ran without event filter on a file that loads to a rule.
DirLoaded ==
    /\ parsed.op = "load_rules_from_dir"
    /\ parsed.event = PyNone
    /\ parsed.loaded # PyNone

\* The loaded rule was left out of the directory's rules.
ExcludedAsDisabled == DirLoaded /\ parsed.rules = <<>>

\* C16: boolean coercion decides enablement.  A top-level scalar
\* becomes a boolean exactly when, quotes stripped, it is true or false in
\* any case, and stays a string otherwise; a rule is excluded by the loader
\* as disabled only when its enabled value is the token false, and any other
\* non-empty value, such as no, off or 0, leaves it enabled.
C16_OnlyFalseDisables ==
    /\ ScalarsCoerced
    /\ \A v \in EnabledValues :
            (DirLoaded /\ content = EnabledDoc(v))
                => /\ IsToken(v, s_false) => ExcludedAsDisabled
                   /\ ExcludedAsDisabled => IsToken(v, s_false)
                   /\ (v # <<>> /\ ~IsToken(v, s_false)) => ~ExcludedAsDisabled

(***************************************************************************)
(* Properties of the merge by name (specification Spec)                    *)
(***************************************************************************)
\* The positions in a tier's listing of the files that load to a rule of
\* that name which is enabled and passes the call's event filter.
PassingNamed(tier, name) ==
    {i \in 1..Len(dirs[tier].files) :
        LET r == RuleOf(tier, dirs[tier].files[i])
        IN /\ r # PyNone
           /\ r.name = name
           /\ Truthy(r.enabled)
           /\ EventMatches(r, call.event)}

\* The rule of the file enumerated last among those.
LastPassing(tier, name) ==
    LET last == CHOOSE i \in PassingNamed(tier, name) :
                    \A j \in PassingNamed(tier, name) : j <= i
    IN RuleOf(tier, dirs[tier].files[last])

\* The names of the rules the files of the two directories load to.
NamesLoaded ==
    {RuleOf(x[1], x[2]).name :
        x \in {y \in Paths : y[2] \in FilesIn(y[1]) /\ RuleOf(y[1], y[2]) # PyNone}}

\* The result holds exactly one rule of that name, and it is r.
OnlyRuleNamed(name, r) ==
    /\ Cardinality(Named(call.rules, name)) = 1
    /\ \A i \in Named(call.rules, name) : call.rules[i] = r

\* C17: name uniqueness of the merged result.  load_rules never returns two
\* rules of one name, also when several files of one tier declare the same
\* name or none ("unnamed"); among the same-named rules of a tier that pass
\* the filters the one enumerated last survives, and a surviving
\* project-tier rule beats a user-tier one.
C17_NamesUnique ==
    Returned("load_rules") =>
        /\ \A i, j \in 1..Len(call.rules) :
                i # j => call.rules[i].name # call.rules[j].name
        /\ \A name \in NamesLoaded :
                IF PassingNamed(SOURCE_PROJECT, name) # {}
                THEN OnlyRuleNamed(name, LastPassing(SOURCE_PROJECT, name))
                ELSE IF PassingNamed(SOURCE_USER, name) # {}
                THEN OnlyRuleNamed(name, LastPassing(SOURCE_USER, name))
                ELSE Named(call.rules, name) = {}

\* C17 witness: two files of the user tier that declare no name both pass
\* the filters, a project-tier file declares none either, and load_rules
\* returned a single rule named "unnamed", the project file's.
C17_Witness ==
    /\ Returned("load_rules")
    /\ Cardinality(PassingNamed(SOURCE_USER, PyStr(s_unnamed))) = 2
    /\ Cardinality(PassingNamed(SOURCE_PROJECT, PyStr(s_unnamed))) = 1
    /\ OnlyRuleNamed(PyStr(s_unnamed), LastPassing(SOURCE_PROJECT, PyStr(s_unnamed)))

\* The rule passes the filters of the directory load of the call.
PassesFilters(r) == Truthy(r.enabled) /\ EventMatches(r, call.event)

\* A user-tier file u and a project-tier file p, each the only one of its
\* name in its tier, load to rules of one name; the user rule passes the
\* filters and the project rule's event is neither "all" nor the event asked.
ProjectFilteredOut(u, p) ==
    LET ru == RuleOf(SOURCE_USER, u)
        rp == RuleOf(SOURCE_PROJECT, p)
    IN /\ ru # PyNone /\ rp # PyNone
       /\ ru.name = rp.name
       /\ PassesFilters(ru)
       /\ ~EventMatches(rp, call.event)
       /\ OnlyOfItsName(SOURCE_USER, u) /\ OnlyOfItsName(SOURCE_PROJECT, p)

MarkerOutsideList(st, line) == MarkerLine(line) /\ ~st.in_list

\* A line without indentation, without colon and without list marker.
BareWord(line) == Unindented(line) /\ ~contains(line, ":") /\ ~MarkerLine(line)

\* An indented line without list marker while no multi-line map item is
\* open, or indented at most two columns, or without a colon.
StrayIndented(st, line) ==
    /\ Indent(line) > 0
    /\ ~MarkerLine(line)
    /\ (~st.in_dict_item \/ Indent(line) <= 2 \/ ~contains(line, ":"))

\* The line is neither blank nor a comment and is of one of the three kinds.
Unrecognised(st, line) ==
    /\ ~Skipped(line)
    /\ (MarkerOutsideList(st, line) \/ BareWord(line) \/ StrayIndented(st, line))

=============================================================================
